---- MODULE Spec2Model ----
(***************************************************************************)
(* busy-bee: a work-time tracker.                                          *)
(*                                                                         *)
(* Two state machines share this module:                                   *)
(*   Spec    the event store (src/data.rs) driven by the commands of       *)
(*           src/bin/main.rs: clock-in, clock-out, delete.                 *)
(*   SpecWT  the duration engine working_time (src/view.rs): the fold over *)
(*           an event list, one step per scanned event, then the           *)
(*           conversion of the accumulated duration to hours and minutes.  *)
(*                                                                         *)
(* Instants are whole seconds since 1970-01-01T00:00:00Z, durations are    *)
(* whole seconds, dates are whole days since 1970-01-01.                   *)
(***************************************************************************)
EXTENDS Integers, Sequences, FiniteSets, Bags, TLC

VARIABLES
    files,      \* storage_dir: file name -> file content (token sequence) or NoFile
    tz,         \* the local UTC offset of the machine, in seconds (east positive)
    last,       \* the last store command: what it was given, read and returned
    created,    \* bag of the events created so far (kept until the first delete)
    deleted,    \* TRUE once a delete command has run
    creates,    \* number of clock-in and clock-out commands issued
    wtEvents,   \* working_time: the slice `events` it is called with
    wtIdx,      \* working_time: number of events the fold has scanned
    wtAcc,      \* working_time: the fold's accumulator (duration, complete, maybe_previous)
    wtPc,       \* working_time: "fold" | "done"
    wtResult,   \* working_time: the returned WorkingTime, or the panic
    rpIn,       \* a report: the arguments of weekly_report or monthly_report, and the build
    rpPc,       \* a report: "header" | "report_days" | "done" | "panicked"
    rpIdx,      \* report_days: number of events the first loop has put into the map
    events_per_day, \* report_days: the BTreeMap from day number to that day's events
    rpOut,      \* a report: the header, the rows and the total written so far
    procs,      \* the invocations of create_event that run side by side
    tmp,        \* the temporary directory: temporary file name -> content
    renames,    \* the invocations that renamed onto a partition, in the order they did
    view        \* the last read-only command: what it was given, loaded and returned

storeVars == <<files, tz, last, created, deleted, creates>>
wtVars == <<wtEvents, wtIdx, wtAcc, wtPc, wtResult>>
reportVars == <<rpIn, rpPc, rpIdx, events_per_day, rpOut>>
ioVars == <<procs, tmp, renames>>
viewVars == <<view>>
vars ==
    <<files, tz, last, created, deleted, creates, wtEvents, wtIdx, wtAcc, wtPc, wtResult,
      rpIn, rpPc, rpIdx, events_per_day, rpOut, procs, tmp, renames, view>>

(***************************************************************************)
(* Bounds                                                                  *)
(***************************************************************************)
MaxLen == 4          \* longest event list handed to working_time
MaxTick == 3         \* instants handed to working_time are 0..MaxTick ticks
MaxCreates == 3      \* clock-in and clock-out commands issued in one run
TickSeconds == 1830  \* one tick: 30 min 30 s, so sums cross minute and hour marks

(***************************************************************************)
(* Program constants                                                       *)
(***************************************************************************)
SecondsPerMinute == 60
MinutesPerHour == 60
SecondsPerHour == 3600
SecondsPerDay == 86400

(***************************************************************************)
(* Events (data.rs: EventKind, Event)                                      *)
(***************************************************************************)
EventKind == {"ClockIn", "ClockOut"}

Event(kind, dt) == [kind |-> kind, dt |-> dt]

(***************************************************************************)
(* Integer arithmetic as Rust and chrono do it: division truncates toward  *)
(* zero and the remainder takes the sign of the dividend.                  *)
(***************************************************************************)
TruncDiv(a, b) == IF a >= 0 THEN a \div b ELSE -((-a) \div b)

RustRem(a, b) == a - b * TruncDiv(a, b)

num_hours(d) == TruncDiv(d, SecondsPerHour)

num_minutes(d) == TruncDiv(d, SecondsPerMinute)

(***************************************************************************)
(* working_time (view.rs).  maybe_previous is <<>> for None and <<e>> for  *)
(* Some(e).                                                                *)
(***************************************************************************)
FoldInit == [duration |-> 0, complete |-> TRUE, prev |-> <<>>]

\* a fold closure that leaves the marker set after a completed pair
fold_step_keeps_marker(acc, event) ==
    CASE acc.prev = <<>> /\ event.kind = "ClockIn" ->
            [duration |-> acc.duration, complete |-> acc.complete, prev |-> <<event>>]
      [] acc.prev = <<>> /\ event.kind = "ClockOut" ->
            [duration |-> acc.duration, complete |-> FALSE, prev |-> <<>>]
      [] acc.prev # <<>> /\ event.kind = "ClockIn" ->
            [duration |-> acc.duration, complete |-> FALSE, prev |-> <<event>>]
      [] acc.prev # <<>> /\ event.kind = "ClockOut" ->
            [duration |-> acc.duration + (event.dt - acc.prev[1].dt),
             complete |-> acc.complete,
             prev |-> acc.prev]

\* a fold closure that keeps the first pending clock-in when a second one arrives
fold_step_keeps_first_clock_in(acc, event) ==
    CASE acc.prev = <<>> /\ event.kind = "ClockIn" ->
            [duration |-> acc.duration, complete |-> acc.complete, prev |-> <<event>>]
      [] acc.prev = <<>> /\ event.kind = "ClockOut" ->
            [duration |-> acc.duration, complete |-> FALSE, prev |-> <<>>]
      [] acc.prev # <<>> /\ event.kind = "ClockIn" ->
            [duration |-> acc.duration, complete |-> FALSE, prev |-> acc.prev]
      [] acc.prev # <<>> /\ event.kind = "ClockOut" ->
            [duration |-> acc.duration + (event.dt - acc.prev[1].dt),
             complete |-> acc.complete,
             prev |-> <<>>]

fold_step(acc, event) ==
    CASE acc.prev = <<>> /\ event.kind = "ClockIn" ->
            [duration |-> acc.duration, complete |-> acc.complete, prev |-> <<event>>]
      [] acc.prev = <<>> /\ event.kind = "ClockOut" ->
            [duration |-> acc.duration, complete |-> FALSE, prev |-> <<>>]
      [] acc.prev # <<>> /\ event.kind = "ClockIn" ->
            [duration |-> acc.duration, complete |-> FALSE, prev |-> <<event>>]
      [] acc.prev # <<>> /\ event.kind = "ClockOut" ->
            [duration |-> acc.duration + (event.dt - acc.prev[1].dt),
             complete |-> acc.complete,
             prev |-> <<>>]

RECURSIVE fold(_, _)
fold(acc, events) ==
    IF events = <<>> THEN acc ELSE fold(fold_step(acc, Head(events)), Tail(events))

Panic == [panicked |-> TRUE, hours |-> 0, minutes |-> 0, complete |-> FALSE]

\* a conversion that shows the hours as a time of day, starting over at 24
to_working_time_hours_of_day(worked, complete) ==
    LET hours == RustRem(num_hours(worked), 24)
        minutes == RustRem(num_minutes(worked), MinutesPerHour)
    IN IF hours < 0 \/ minutes < 0
       THEN Panic
       ELSE [panicked |-> FALSE, hours |-> hours, minutes |-> minutes,
             complete |-> complete]

\* view.rs 216-222: both conversions to u32 are unwrapped; a negative value
\* fails the conversion (values above u32::MAX are beyond the integers here)
to_working_time(worked, complete) ==
    LET hours == num_hours(worked)
        minutes == RustRem(num_minutes(worked), MinutesPerHour)
    IN IF hours < 0 \/ minutes < 0
       THEN Panic
       ELSE [panicked |-> FALSE, hours |-> hours, minutes |-> minutes,
             complete |-> complete]

NoResult == [panicked |-> FALSE, hours |-> 0, minutes |-> 0, complete |-> TRUE]

(***************************************************************************)
(* Calendar (chrono: NaiveDate as days since 1970-01-01, proleptic         *)
(* Gregorian calendar; Datelike::year, month, day)                         *)
(***************************************************************************)
\* The conversions work in 400-year eras that start on March 1: doe is the day
\* of the era, yoe the year of the era, doy the day of the year counted from
\* March 1, mp the month counted from March.
civil_of(y, m, d) == [year |-> IF m <= 2 THEN y + 1 ELSE y, month |-> m, day |-> d]

civil_from_mp(y, doy, mp) ==
    civil_of(y, IF mp < 10 THEN mp + 3 ELSE mp - 9, doy - (153 * mp + 2) \div 5 + 1)

civil_from_doy(y, doy) == civil_from_mp(y, doy, (5 * doy + 2) \div 153)

civil_from_yoe(era, doe, yoe) ==
    civil_from_doy(yoe + era * 400, doe - (365 * yoe + yoe \div 4 - yoe \div 100))

civil_from_doe(era, doe) ==
    civil_from_yoe(era, doe,
                   (doe - doe \div 1460 + doe \div 36524 - doe \div 146096) \div 365)

civil_from_days(days) ==
    civil_from_doe((days + 719468) \div 146097, (days + 719468) % 146097)

days_from_era(era, yoe, doy) ==
    era * 146097 + (yoe * 365 + yoe \div 4 - yoe \div 100 + doy) - 719468

days_from_march_year(y, mp, day) ==
    days_from_era(y \div 400, y % 400, (153 * mp + 2) \div 5 + day - 1)

days_from_civil(year, month, day) ==
    days_from_march_year(IF month <= 2 THEN year - 1 ELSE year,
                         IF month > 2 THEN month - 3 ELSE month + 9, day)

\* DateTime<Utc>::date_naive: the UTC calendar date of an instant
date_naive(dt) == dt \div SecondsPerDay

\* the calendar date of an instant on the local clock
local_date(dt, offset) == (dt + offset) \div SecondsPerDay

(***************************************************************************)
(* Text.  A string is a sequence of tokens [c, n]: a literal piece of text *)
(* (c) or a run of decimal digits (c = "digits", n their value).  A date   *)
(* is the digits YYYYMMDD, a time of day the digits HHMMSS.                *)
(***************************************************************************)
Lit(text) == [c |-> text, n |-> 0]

Digits(value) == [c |-> "digits", n |-> value]

Comma == Lit(",")

Newline == Lit("\n")

Space == Lit(" ")

RECURSIVE Concat(_)
Concat(strs) == IF strs = <<>> THEN <<>> ELSE Head(strs) \o Concat(Tail(strs))

\* [String]::join(sep)
RECURSIVE Join(_, _)
Join(strs, sep) ==
    IF strs = <<>> THEN <<>>
    ELSE IF Len(strs) = 1 THEN strs[1]
    ELSE strs[1] \o <<sep>> \o Join(Tail(strs), sep)

\* str::split(sep): the pieces between the separators, empty ones included
split_cons(c, sep, rest) ==
    IF c = sep THEN << <<>> >> \o rest
    ELSE << <<c>> \o Head(rest) >> \o Tail(rest)

RECURSIVE Split(_, _)
Split(str, sep) ==
    IF str = <<>> THEN << <<>> >>
    ELSE split_cons(Head(str), sep, Split(Tail(str), sep))

drop_last_empty(pieces) ==
    IF pieces[Len(pieces)] = <<>> THEN SubSeq(pieces, 1, Len(pieces) - 1) ELSE pieces

\* str::lines: as split at the line ends, without the empty piece after a
\* final line end
Lines(str) == IF str = <<>> THEN <<>> ELSE drop_last_empty(Split(str, Newline))

RECURSIVE Trim(_)
Trim(str) ==
    IF str = <<>> THEN <<>>
    ELSE IF Head(str) = Space THEN Trim(Tail(str))
    ELSE IF str[Len(str)] = Space THEN Trim(SubSeq(str, 1, Len(str) - 1))
    ELSE str

\* the digits YYYYMMDD of a calendar date
ymd_digits(ymd) == ymd.year * 10000 + ymd.month * 100 + ymd.day

\* the digits HHMMSS of a time of day given in seconds
hms_digits(secs) ==
    (secs \div SecondsPerHour) * 10000
    + ((secs % SecondsPerHour) \div SecondsPerMinute) * 100
    + (secs % SecondsPerMinute)

\* DateTime<Utc>::to_rfc3339: "YYYY-MM-DDTHH:MM:SS+00:00"
to_rfc3339(dt) ==
    << Digits(ymd_digits(civil_from_days(dt \div SecondsPerDay))),
       Lit("T"),
       Digits(hms_digits(dt % SecondsPerDay)),
       Lit("+00:00") >>

ParseError == [ok |-> FALSE, dt |-> 0]

\* the instant of a UTC date and time of day, if there is such a date and time
from_ymd_hms(ymd, days, hh, mm, ss) ==
    IF civil_from_days(days) # ymd \/ hh > 23 \/ mm > 59 \/ ss > 59
    THEN ParseError
    ELSE [ok |-> TRUE,
          dt |-> days * SecondsPerDay + hh * SecondsPerHour + mm * SecondsPerMinute + ss]

from_digits(year, month, day, hms) ==
    from_ymd_hms([year |-> year, month |-> month, day |-> day],
                 days_from_civil(year, month, day),
                 hms \div 10000, (hms \div 100) % 100, hms % 100)

\* DateTime::parse_from_rfc3339 followed by with_timezone(&Utc)
parse_from_rfc3339(str) ==
    IF \/ Len(str) # 4
       \/ str[1].c # "digits"
       \/ str[2] # Lit("T")
       \/ str[3].c # "digits"
       \/ str[4] \notin {Lit("+00:00"), Lit("Z")}
    THEN ParseError
    ELSE from_digits(str[1].n \div 10000, (str[1].n \div 100) % 100, str[1].n % 100,
                     str[3].n)

(***************************************************************************)
(* The event store (data.rs)                                               *)
(***************************************************************************)
\* a file name without the day, "{year}-{month:0>2}.csv", as the digits YYYYMM00
get_file_name_of_month(date) == (ymd_digits(civil_from_days(date)) \div 100) * 100

\* get_file_name: "{year}-{month:0>2}-{day:0>2}.csv", as the digits YYYYMMDD
get_file_name(date) == ymd_digits(civil_from_days(date))

event_to_str(event) ==
    << IF event.kind = "ClockIn" THEN Lit("clock-in") ELSE Lit("clock-out"), Comma >>
    \o to_rfc3339(event.dt)

Err == [ok |-> FALSE, events |-> <<>>]

Ok(events) == [ok |-> TRUE, events |-> events]

NoEvent == [ok |-> FALSE, event |-> Event("ClockIn", 0)]

parsed_event(kind, parsed) == [ok |-> parsed.ok, event |-> Event(kind, parsed.dt)]

\* parse_event, from the trimmed columns on: Result<Event>
parse_cols(cols) ==
    IF Len(cols) # 2 THEN NoEvent
    ELSE IF cols[1] = <<Lit("clock-in")>>
    THEN parsed_event("ClockIn", parse_from_rfc3339(cols[2]))
    ELSE IF cols[1] = <<Lit("clock-out")>>
    THEN parsed_event("ClockOut", parse_from_rfc3339(cols[2]))
    ELSE NoEvent

trim_all(strs) == [i \in 1..Len(strs) |-> Trim(strs[i])]

parse_event(line) == parse_cols(trim_all(Split(line, Comma)))

RECURSIVE NonBlank(_)
NonBlank(lines) ==
    IF lines = <<>> THEN <<>>
    ELSE IF Trim(Head(lines)) = <<>> THEN NonBlank(Tail(lines))
    ELSE <<Head(lines)>> \o NonBlank(Tail(lines))

\* a collect that leaves out the lines that did not parse
RECURSIVE collect_parsed_only(_)
collect_parsed_only(parsed) ==
    IF parsed = <<>> THEN Ok(<<>>)
    ELSE IF ~Head(parsed).ok THEN collect_parsed_only(Tail(parsed))
    ELSE Ok(<<Head(parsed).event>> \o collect_parsed_only(Tail(parsed)).events)

\* Iterator<Result<Event>>::collect into Result<Vec<Event>>
collect(parsed) ==
    IF \E i \in 1..Len(parsed) : ~parsed[i].ok THEN Err
    ELSE Ok([i \in 1..Len(parsed) |-> parsed[i].event])

parse_lines(lines) == collect([i \in 1..Len(lines) |-> parse_event(lines[i])])

read_file(dir, file_name) ==
    IF file_name \notin DOMAIN dir THEN Ok(<<>>)
    ELSE parse_lines(NonBlank(Lines(dir[file_name])))

read_events(dir, date) == read_file(dir, get_file_name(date))

insert_at(events, event, k) ==
    SubSeq(events, 1, k) \o <<event>> \o SubSeq(events, k + 1, Len(events))

\* the event goes behind the events of the sorted list that are not later
insert_by_key(sorted, event) ==
    insert_at(sorted, event,
              Cardinality({i \in 1..Len(sorted) : sorted[i].dt <= event.dt}))

\* events.sort_by_key(|event| event.dt): a stable sort
RECURSIVE sort_by_key(_)
sort_by_key(events) ==
    IF Len(events) <= 1 THEN events
    ELSE insert_by_key(sort_by_key(SubSeq(events, 1, Len(events) - 1)),
                       events[Len(events)])

all_to_str(events) == [i \in 1..Len(events) |-> event_to_str(events[i])]

\* write_to_file: the content replaces the file's, or the file is created
write_to_file(dir, file_name, content) ==
    [f \in (DOMAIN dir) \cup {file_name} |->
        IF f = file_name THEN content ELSE dir[f]]

\* the result of a store operation: whether it returned Ok, the directory
\* afterwards, and the list it wrote
Failed(dir) == [ok |-> FALSE, dir |-> dir, events |-> <<>>]

\* create_event, after the sort (data.rs 78-90)
create_write(dir, event, events) ==
    [ok |-> TRUE,
     dir |-> write_to_file(dir, get_file_name(date_naive(event.dt)),
                           Join(all_to_str(events), Newline)),
     events |-> events]

\* a create_event that writes the list as pushed to, unsorted
create_unsorted(dir, event, events) == create_write(dir, event, events)

\* create_event, after the push (data.rs 76-90)
create_sorted(dir, event, events) == create_write(dir, event, sort_by_key(events))

\* create_event, after the read (data.rs 75-90)
create_after_read(dir, event, read) ==
    IF ~read.ok THEN Failed(dir)
    ELSE create_sorted(dir, event, Append(read.events, event))

create_event(dir, event) ==
    create_after_read(dir, event, read_events(dir, date_naive(event.dt)))

\* the events whose zero-based position is not id
without_id(events, id) ==
    IF id < Len(events)
    THEN SubSeq(events, 1, id) \o SubSeq(events, id + 2, Len(events))
    ELSE events

\* delete_event, after the filter (data.rs 162-168)
delete_write(dir, date, events) ==
    [ok |-> TRUE,
     dir |-> write_to_file(dir, get_file_name(date), Concat(all_to_str(events))),
     events |-> events]

\* delete_event, after the read (data.rs 155-168)
delete_after_read(dir, date, id, read) ==
    IF ~read.ok THEN Failed(dir)
    ELSE delete_write(dir, date, without_id(read.events, id))

delete_event(dir, date, id) ==
    delete_after_read(dir, date, id, read_events(dir, date))

(***************************************************************************)
(* The commands (main.rs)                                                  *)
(***************************************************************************)
\* get_date_time with a date and a time given: the local date and time of day
\* as an instant.  (Without them the local clock supplies the date and time.)
get_date_time(date, time, offset) == date * SecondsPerDay + time - offset

\* local_time.format("%H:%M") of DateTime::<Local>::from(dt), as the digits HHMM
local_hhmm(dt, offset) ==
    (((dt + offset) % SecondsPerDay) \div SecondsPerHour) * 100
    + (((dt + offset) % SecondsPerHour) \div SecondsPerMinute)

\* one line of daily_report, "{i} | {time_str} | {kind_str} |" (view.rs 47-55)
daily_row(i, event, offset) ==
    << Digits(i), Lit(" | "), Digits(local_hhmm(event.dt, offset)), Lit(" | "),
       IF event.kind = "ClockIn" THEN Lit("clock in ") ELSE Lit("clock out"), Lit(" |") >>

\* the event lines of daily_report: events.iter().enumerate()
daily_rows(events, offset) == [j \in 1..Len(events) |-> daily_row(j - 1, events[j], offset)]

\* the dates the commands name: 2019-12-31 and 2020-01-01
FirstDay == days_from_civil(2019, 12, 31)

Dates == {FirstDay, FirstDay + 1}

\* 00:30 and 23:30 on the local clock
TimesOfDay == {30 * SecondsPerMinute, 23 * SecondsPerHour + 30 * SecondsPerMinute}

\* the local clock is an hour behind UTC, on UTC, or an hour ahead
Offsets == {-SecondsPerHour, 0, SecondsPerHour}

NoCommand ==
    [op |-> "none", date |-> 0, id |-> 0, event |-> <<>>, pre |-> Ok(<<>>),
     written |-> <<>>, ok |-> TRUE]

WtIdle ==
    /\ wtEvents = <<>>
    /\ wtIdx = 0
    /\ wtAcc = FoldInit
    /\ wtPc = "done"
    /\ wtResult = NoResult

\* no report is being written
NoReportIn == [kind |-> "none", date |-> 0, events |-> <<>>, build |-> "release"]

NoReportOut == [header |-> <<>>, rows |-> <<>>, total |-> <<>>]

ReportIdle ==
    /\ rpIn = NoReportIn
    /\ rpPc = "done"
    /\ rpIdx = 0
    /\ events_per_day = <<>>
    /\ rpOut = NoReportOut

\* no invocation runs step by step
IoIdle ==
    /\ procs = <<>>
    /\ tmp = <<>>
    /\ renames = <<>>

NoView == [op |-> "none", date |-> 0, days |-> <<>>, before |-> <<>>, result |-> Ok(<<>>)]

ViewIdle == view = NoView

Init ==
    /\ files = <<>>
    /\ tz \in Offsets
    /\ last = NoCommand
    /\ created = EmptyBag
    /\ deleted = FALSE
    /\ creates = 0
    /\ WtIdle
    /\ ReportIdle
    /\ IoIdle
    /\ ViewIdle

\* the store after a command, and the record of the command
Done(op, date, id, event, pre, res) ==
    /\ files' = res.dir
    /\ last' = [op |-> op, date |-> date, id |-> id, event |-> event, pre |-> pre,
                written |-> res.events, ok |-> res.ok]

\* create_event(&storage_dir, &event): `read` is what its read_events returns
CreateEvent(event, read) ==
    /\ creates < MaxCreates
    /\ creates' = creates + 1
    /\ Done("create", date_naive(event.dt), 0, <<event>>, read,
            create_after_read(files, event, read))
    /\ created' = IF read.ok /\ ~deleted THEN created (+) SetToBag({event}) ELSE created
    /\ UNCHANGED <<tz, deleted, wtVars, reportVars, ioVars, viewVars>>

Clock(event) == CreateEvent(event, read_events(files, date_naive(event.dt)))

\* Commands::ClockIn
ClockIn ==
    \E date \in Dates, time \in TimesOfDay :
        Clock(Event("ClockIn", get_date_time(date, time, tz)))

\* Commands::ClockOut
ClockOut ==
    \E date \in Dates, time \in TimesOfDay :
        Clock(Event("ClockOut", get_date_time(date, time, tz)))

\* the ids a delete is tried with: every position of the day's list, and one
\* id that is no position (any other such id is filtered the same way)
Ids(read) == 0..Len(read.events)

\* delete_event(&storage_dir, &date, id): `read` is what its read_events returns
DeleteEvent(date, read) ==
    \E id \in Ids(read) :
        /\ Done("delete", date, id, <<>>, read, delete_after_read(files, date, id, read))
        /\ created' = EmptyBag
        /\ deleted' = TRUE
        /\ UNCHANGED <<tz, creates, wtVars, reportVars, ioVars, viewVars>>

\* Commands::Delete
Delete == \E date \in Dates : DeleteEvent(date, read_events(files, date))

Next ==
    \/ ClockIn
    \/ ClockOut
    \/ Delete

Spec == Init /\ [][Next]_vars

(***************************************************************************)
(* Properties of the event store, checked under Spec                       *)
(***************************************************************************)
\* the UTC dates an event of the commands can fall on
StoreDates == (FirstDay - 1)..(FirstDay + 2)

Count(events, e) == Cardinality({i \in 1..Len(events) : events[i] = e})

Elements(events) == {events[i] : i \in 1..Len(events)}

Ascending(events) == \A i \in 1..(Len(events) - 1) : events[i].dt <= events[i + 1].dt

\* the list without the element at the zero-based position id < Len(events)
RemoveAt(events, id) ==
    [j \in 1..(Len(events) - 1) |-> IF j <= id THEN events[j] ELSE events[j + 1]]

\* `read` holds every created event that `belongs` says is the day's, as often as
\* it was created, and nothing else
HoldsExactly(read, belongs(_)) ==
    /\ read.ok
    /\ \A e \in BagToSet(created) \cup Elements(read.events) :
            Count(read.events, e) = IF belongs(e) THEN CopiesIn(e, created) ELSE 0

ReadsBackRemoved(read) == read = Ok(RemoveAt(last.pre.events, last.id))

\* C6: after delete_event(day, id) with id a position of the day's n events,
\* read_events(day) succeeds and returns the previous list without the element
\* at position id, the others in their previous order; delete_event(day, 0)
\* applied twice to n >= 2 events leaves the list without its two earliest.
C6_DeleteRemovesPosition ==
    /\ [](( /\ last.op = "delete"
            /\ last.pre.ok
            /\ last.id < Len(last.pre.events) ) =>
                ReadsBackRemoved(read_events(files, last.date)))
    /\ [][( /\ last.op = "delete" /\ last.id = 0 /\ last.pre.ok
            /\ Len(last.pre.events) >= 2
            /\ last' # last
            /\ last'.op = "delete" /\ last'.id = 0 /\ last'.date = last.date ) =>
                read_events(files', last.date)
                    = Ok(SubSeq(last.pre.events, 3, Len(last.pre.events)))]_vars

\* C7: delete_event(day, id) with an id that is no position of the day's list
\* succeeds and read_events(day) returns the same list as before the call,
\* whatever the size of the list.
C7_DeleteMissingIdIsNoOp ==
    ( /\ last.op = "delete"
      /\ last.pre.ok
      /\ last.id >= Len(last.pre.events) ) =>
        /\ last.ok
        /\ read_events(files, last.date) = last.pre

ReadsBackSorted(date, read) ==
    /\ HoldsExactly(read, LAMBDA e : date_naive(e.dt) = date)
    /\ Ascending(read.events)

\* C8: after any sequence of create_event calls on an empty store read_events
\* returns, for each day, exactly the events created for that day (the events
\* whose timestamp falls on it), none lost and none duplicated, ascending by
\* timestamp.
C8_ReadBackSorted ==
    ~deleted => \A date \in StoreDates : ReadsBackSorted(date, read_events(files, date))

\* three events in one day, the last one created earlier than one before it
C8_Witness ==
    /\ ~deleted
    /\ last.op = "create"
    /\ last.ok
    /\ Len(last.written) = 3
    /\ last.event[1].dt < last.written[3].dt
    /\ read_events(files, last.date) = Ok(last.written)

\* C9: a list written to the text format as create_event and delete_event write
\* it is read back by read_events as an equal list: the same kinds and instants
\* in the same order.
C9_RoundTrip ==
    (last.op \in {"create", "delete"} /\ last.ok) =>
        read_events(files, last.date) = Ok(last.written)

\* C10: a created event is stored in the partition of the local calendar date of
\* its timestamp: read_events(d) returns exactly the created events whose local
\* date is d, for any local UTC offset.
C10_LocalDatePartition ==
    ~deleted =>
        \A date \in StoreDates :
            HoldsExactly(read_events(files, date), LAMBDA e : local_date(e.dt, tz) = date)

\* the line a daily report shows for an event at the zero-based position id
ShownAt(id, event) == daily_row(id, event, tz)

\* `after` is `before` without one occurrence of `event`, and nothing else is
\* gone or new
RemovedOnly(before, after, event) ==
    \A e \in Elements(before) \cup Elements(after) \cup {event} :
        Count(after, e) = Count(before, e) - (IF e = event THEN 1 ELSE 0)

\* C21: the number in front of an event in the daily report is the event's
\* zero-based position in the day's list, and it is the id delete_event uses:
\* after any creates and deletes, deleting the id shown next to an event in a
\* fresh daily report of the day removes that event and no other.
C21_ShownIdDeletesShownEvent ==
    ( /\ last.op = "delete"
      /\ last.pre.ok
      /\ last.id < Len(last.pre.events) ) =>
        /\ daily_rows(last.pre.events, tz)[last.id + 1]
              = ShownAt(last.id, last.pre.events[last.id + 1])
        /\ read_events(files, last.date).ok
        /\ RemovedOnly(last.pre.events, read_events(files, last.date).events,
                       last.pre.events[last.id + 1])

\* C22: from an empty store, after any sequence of successful create_event and
\* delete_event calls read_events succeeds for every day: the store's own
\* writes never leave a partition the store cannot parse.
C22_StoreStaysReadable ==
    \A date \in StoreDates : read_events(files, date).ok

\* C24: create_event for an event of day D and delete_event(D, id) change only
\* the partition of day D: what read_events returns for every other day is the
\* same after the call as before it.
C24_OtherDaysUnchanged ==
    [][\A date \in StoreDates \ {last'.date} :
          read_events(files', date) = read_events(files, date)]_vars

\* a create and a delete have each changed one of two days, the other day's
\* partition holding an event
C24_Witness ==
    /\ last.op = "delete"
    /\ last.ok
    /\ Len(last.pre.events) > Len(last.written)
    /\ \E date \in StoreDates \ {last.date} : Len(read_events(files, date).events) > 0


(***************************************************************************)
(* SpecWT: working_time applied to every event list within the bounds,     *)
(* time-ordered or not.                                                    *)
(***************************************************************************)
\* instants within a day's first hours, and one a day and an hour later
WtInstants == {k * TickSeconds : k \in 0..MaxTick} \cup {SecondsPerDay + SecondsPerHour}

WtEventSet == {Event(k, t) : k \in EventKind, t \in WtInstants}

WtInputs == UNION {[1..n -> WtEventSet] : n \in 0..MaxLen}

StoreIdle ==
    /\ files = <<>>
    /\ tz = 0
    /\ last = NoCommand
    /\ created = EmptyBag
    /\ deleted = FALSE
    /\ creates = 0

InitWT ==
    /\ StoreIdle
    /\ ReportIdle
    /\ IoIdle
    /\ ViewIdle
    /\ wtEvents \in WtInputs
    /\ wtIdx = 0
    /\ wtAcc = FoldInit
    /\ wtPc = "fold"
    /\ wtResult = NoResult

\* one application of the fold closure (view.rs 181-213)
FoldStep ==
    /\ wtPc = "fold"
    /\ wtIdx < Len(wtEvents)
    /\ wtAcc' = fold_step(wtAcc, wtEvents[wtIdx + 1])
    /\ wtIdx' = wtIdx + 1
    /\ UNCHANGED <<wtEvents, wtPc, wtResult, storeVars, reportVars, ioVars, viewVars>>

\* the fold is exhausted: convert and return (view.rs 216-222)
Finish ==
    /\ wtPc = "fold"
    /\ wtIdx = Len(wtEvents)
    /\ wtResult' = to_working_time(wtAcc.duration, wtAcc.complete)
    /\ wtPc' = "done"
    /\ UNCHANGED <<wtEvents, wtIdx, wtAcc, storeVars, reportVars, ioVars, viewVars>>

NextWT ==
    \/ FoldStep
    \/ Finish

SpecWT == InitWT /\ [][NextWT]_vars


(***************************************************************************)
(* Properties of working_time, checked under SpecWT                        *)
(***************************************************************************)
TimeOrdered(evs) == \A i \in 1..(Len(evs) - 1) : evs[i].dt <= evs[i + 1].dt

\* zero or more pairs: ClockIn at the odd places, ClockOut at the even ones
WellFormedPairs(evs) ==
    /\ Len(evs) % 2 = 0
    /\ \A i \in 1..Len(evs) : evs[i].kind = (IF i % 2 = 1 THEN "ClockIn" ELSE "ClockOut")

RECURSIVE PairSum(_)
PairSum(evs) ==
    IF Len(evs) < 2 THEN 0
    ELSE (evs[2].dt - evs[1].dt) + PairSum(SubSeq(evs, 3, Len(evs)))

RECURSIVE PairMinutes(_)
PairMinutes(evs) ==
    IF Len(evs) < 2 THEN 0
    ELSE ((evs[2].dt - evs[1].dt) \div 60) + PairMinutes(SubSeq(evs, 3, Len(evs)))

\* the event at place k is a ClockOut with no clock-in pending
OrphanOut(evs, k) ==
    evs[k].kind = "ClockOut" /\ (k = 1 \/ evs[k - 1].kind = "ClockOut")

\* the event at place k is a ClockIn while a clock-in is pending
OrphanIn(evs, k) ==
    evs[k].kind = "ClockIn" /\ k > 1 /\ evs[k - 1].kind = "ClockIn"

HasOrphan(evs) == \E k \in 1..Len(evs) : OrphanOut(evs, k) \/ OrphanIn(evs, k)

\* the durations of the places where a ClockOut directly follows a ClockIn
RECURSIVE AdjacentPairSum(_)
AdjacentPairSum(evs) ==
    IF Len(evs) < 2 THEN 0
    ELSE LET n == Len(evs)
         IN AdjacentPairSum(SubSeq(evs, 1, n - 1))
            + (IF evs[n].kind = "ClockOut" /\ evs[n - 1].kind = "ClockIn"
               THEN evs[n].dt - evs[n - 1].dt ELSE 0)

AllPaired(evs) ==
    \A k \in 1..Len(evs) :
        /\ evs[k].kind = "ClockIn" => (k < Len(evs) /\ evs[k + 1].kind = "ClockOut")
        /\ evs[k].kind = "ClockOut" => (k > 1 /\ evs[k - 1].kind = "ClockIn")

Scanned == SubSeq(wtEvents, 1, wtIdx)

\* C1: for a time-ordered list of zero or more well-formed pairs working_time
\* returns complete = true and hours*60 + minutes equal to the whole minutes of
\* the sum of (clock-out - clock-in) over the pairs; the empty list gives 00:00.
C1_PairsTotal ==
    (wtPc = "done" /\ WellFormedPairs(wtEvents) /\ TimeOrdered(wtEvents)) =>
        /\ ~wtResult.panicked
        /\ wtResult.complete
        /\ wtResult.hours * 60 + wtResult.minutes = PairSum(wtEvents) \div 60
        /\ wtEvents = <<>> => (wtResult.hours = 0 /\ wtResult.minutes = 0)

\* two pairs whose seconds add up to a further minute, more than an hour in all
C1_Witness ==
    /\ wtPc = "done"
    /\ WellFormedPairs(wtEvents)
    /\ TimeOrdered(wtEvents)
    /\ Len(wtEvents) = 4
    /\ wtResult.hours >= 1
    /\ wtResult.hours * 60 + wtResult.minutes > PairMinutes(wtEvents)

\* C2: for every event list working_time returns complete = false whenever the
\* scan meets an orphaned event, and scanning an orphaned ClockOut leaves the
\* accumulated duration as it was.
C2_OrphanIncomplete ==
    /\ (wtPc = "done" /\ HasOrphan(wtEvents)) =>
            (~wtResult.panicked /\ ~wtResult.complete)
    /\ (wtIdx >= 1 /\ OrphanOut(wtEvents, wtIdx)) =>
            wtAcc.duration = fold(FoldInit, SubSeq(wtEvents, 1, wtIdx - 1)).duration

\* C3: the fold adds duration only when a ClockOut is scanned while a clock-in
\* is pending, and then adds the ClockOut time minus the time of the most recent
\* preceding ClockIn: after any number of scanned events the accumulated duration
\* is the sum over the places where a ClockOut directly follows a ClockIn.  For
\* ClockIn(t1), ClockIn(t2), ClockOut(t3) the total is t3 - t2 and complete is false.
C3_PairsWithLatestClockIn ==
    /\ wtAcc.duration = AdjacentPairSum(Scanned)
    /\ ( /\ Len(wtEvents) = 3
         /\ wtIdx = 3
         /\ wtEvents[1].kind = "ClockIn"
         /\ wtEvents[2].kind = "ClockIn"
         /\ wtEvents[3].kind = "ClockOut" ) =>
            /\ wtAcc.duration = wtEvents[3].dt - wtEvents[2].dt
            /\ ~wtAcc.complete
            /\ (wtPc = "done" /\ TimeOrdered(wtEvents)) =>
                    /\ ~wtResult.panicked
                    /\ ~wtResult.complete
                    /\ wtResult.hours * 60 + wtResult.minutes
                         = (wtEvents[3].dt - wtEvents[2].dt) \div 60

\* ClockIn(t1), ClockIn(t2), ClockOut(t3) with t1 < t2 < t3, returned
C3_Witness ==
    /\ wtPc = "done"
    /\ Len(wtEvents) = 3
    /\ wtEvents[1].kind = "ClockIn"
    /\ wtEvents[2].kind = "ClockIn"
    /\ wtEvents[3].kind = "ClockOut"
    /\ wtEvents[1].dt < wtEvents[2].dt
    /\ wtEvents[2].dt < wtEvents[3].dt
    /\ ~wtResult.panicked
    /\ wtResult.hours * 60 + wtResult.minutes > 0

\* C4: working_time returns a WorkingTime for every finite event list, also one
\* whose timestamps are not ascending; it never panics.
C4_NeverPanics == wtPc = "done" => ~wtResult.panicked

\* C5: on a time-ordered list working_time returns complete = true exactly when
\* every ClockIn is directly followed by a ClockOut and every ClockOut directly
\* preceded by a ClockIn; a list ending in an unmatched ClockIn is not complete.
C5_CompleteIffAllPaired ==
    (wtPc = "done" /\ TimeOrdered(wtEvents)) =>
        /\ ~wtResult.panicked
        /\ wtResult.complete <=> AllPaired(wtEvents)

\* C19: for every time-ordered event list the result of working_time has
\* hours = T \div 60 and minutes = T % 60, with 0 <= minutes <= 59, where T is
\* the whole minutes of the total accumulated duration (the seconds truncated
\* once, on the total); hours is not capped at 24.
C19_HoursMinutesOfTotal ==
    (wtPc = "done" /\ TimeOrdered(wtEvents)) =>
        /\ ~wtResult.panicked
        /\ wtResult.hours = (AdjacentPairSum(wtEvents) \div 60) \div 60
        /\ wtResult.minutes = (AdjacentPairSum(wtEvents) \div 60) % 60
        /\ wtResult.hours >= 0
        /\ wtResult.minutes \in 0..59

\* two pairs, the second over midnight: 24 hours or more, and the seconds of the
\* two pairs add up to a further minute
C19_Witness ==
    /\ wtPc = "done"
    /\ TimeOrdered(wtEvents)
    /\ WellFormedPairs(wtEvents)
    /\ Len(wtEvents) = 4
    /\ wtResult.hours >= 24
    /\ wtResult.hours * 60 + wtResult.minutes > PairMinutes(wtEvents)


(***************************************************************************)
(* The reports (view.rs: weekly_report, monthly_report, report_days)       *)
(***************************************************************************)
working_time_of(acc) == to_working_time(acc.duration, acc.complete)

\* a working_time that forgets a pending clock-in when the date changes
RECURSIVE fold_by_day(_, _)
fold_by_day(acc, events) ==
    IF events = <<>> THEN acc
    ELSE fold_by_day(
            fold_step(IF /\ acc.prev # <<>>
                         /\ date_naive(acc.prev[1].dt) # date_naive(Head(events).dt)
                      THEN [acc EXCEPT !.prev = <<>>] ELSE acc,
                      Head(events)),
            Tail(events))

working_time_by_day(events) == working_time_of(fold_by_day(FoldInit, events))

working_time(events) == working_time_of(fold(FoldInit, events))

\* Weekday::num_days_from_monday: 0 is Monday (1970-01-01 was a Thursday)
num_days_from_monday(date) == (date + 3) % 7

number_from_monday(date) == num_days_from_monday(date) + 1

\* Datelike::day of a DateTime<Utc>: the day of the month of its UTC date
day(dt) == civil_from_days(date_naive(dt)).day

\* arithmetic overflow panics in a build with overflow checks and wraps in one
\* without
Builds == {"debug", "release"}

\* `a - b > limit` on u32, for limit and b - a far below 2^32: below zero the
\* difference wraps to 2^32 - (b - a), which is above the limit
u32_sub_exceeds(a, b, limit, build) ==
    IF a >= b THEN [panicked |-> FALSE, holds |-> a - b > limit]
    ELSE IF build = "debug" THEN [panicked |-> TRUE, holds |-> FALSE]
    ELSE [panicked |-> FALSE, holds |-> TRUE]

\* view.rs 100-108, by the weekday of January 1 as days from Monday
week_1_monday_offset(jan1_weekday) ==
    CASE jan1_weekday = 0 -> 0
      [] jan1_weekday = 1 -> -1
      [] jan1_weekday = 2 -> -2
      [] jan1_weekday = 3 -> -3
      [] jan1_weekday = 4 -> 3
      [] jan1_weekday = 5 -> 2
      [] jan1_weekday = 6 -> 1

week_1_monday(jan1) == jan1 + week_1_monday_offset(num_days_from_monday(jan1))

\* view.rs 99-112
week_of_year(date, year) ==
    TruncDiv(date - week_1_monday(days_from_civil(year, 1, 1)), 7) + 1

NoWeek == [panicked |-> TRUE, week |-> 0]

\* view.rs 92-112, in January: `previous` is the outcome of the comparison
calendar_week_january(date, ymd, previous) ==
    IF previous.panicked THEN NoWeek
    ELSE [panicked |-> FALSE,
          week |-> week_of_year(date, IF previous.holds THEN ymd.year - 1 ELSE ymd.year)]

calendar_week_of(date, ymd, build) ==
    IF ymd.month = 1
    THEN calendar_week_january(date, ymd,
                               u32_sub_exceeds(number_from_monday(date), ymd.day, 3, build))
    ELSE [panicked |-> FALSE, week |-> week_of_year(date, ymd.year)]

\* the block that computes calendar_week (view.rs 88-113)
calendar_week(date, build) == calendar_week_of(date, civil_from_days(date), build)

\* "Summary for calendar week {calendar_week}, starting {date}:"
weekly_header(date, week) ==
    << Lit("Summary for calendar week "), Digits(week), Lit(", starting "),
       Digits(ymd_digits(civil_from_days(date))), Lit(":") >>

\* "Summary for {month} {year}:", the month and year as the digits YYYYMM
month_digits(ymd) == ymd.year * 100 + ymd.month

monthly_header(date) ==
    << Lit("Summary for "), Digits(month_digits(civil_from_days(date))), Lit(":") >>

\* "{hours:02}:{minutes:02}"
hours_minutes(wt) == << Digits(wt.hours), Lit(":"), Digits(wt.minutes) >>

\* events_per_day.entry(key).or_insert_with(Vec::new).push(event)
push_at(map, key, event) ==
    [k \in (DOMAIN map) \cup {key} |->
        IF k # key THEN map[k]
        ELSE IF key \in DOMAIN map THEN Append(map[key], event)
        ELSE <<event>>]

push_event(map, event) == push_at(map, day(event.dt), event)

\* the i-th key of a BTreeMap in the order it is iterated in: ascending
nth_key(map, i) ==
    CHOOSE k \in DOMAIN map : Cardinality({j \in DOMAIN map : j < k}) = i - 1

\* one line of report_days, "{day:<2} | {recorded_time:<5} | {comment}", and the
\* events it was computed from
row(key, days_events, wt) ==
    [day |-> key,
     recorded_time |-> IF wt.complete THEN hours_minutes(wt) ELSE <<Lit("?")>>,
     comment |-> IF wt.complete THEN <<>>
                 ELSE <<Lit("Incomplete records, please update")>>,
     days_events |-> days_events]

(***************************************************************************)
(* SpecReport: weekly_report and monthly_report applied to time-ordered    *)
(* event lists, one step per loop iteration of report_days.                *)
(***************************************************************************)
MaxReportLen == 3    \* longest event list handed to a report

\* Mondays: 2018-01-01, 2019-12-30, 2020-01-06, 2020-06-15, 2020-12-28, 2021-01-04
RpMondays ==
    { days_from_civil(2018, 1, 1), days_from_civil(2019, 12, 30),
      days_from_civil(2020, 1, 6), days_from_civil(2020, 6, 15),
      days_from_civil(2020, 12, 28), days_from_civil(2021, 1, 4) }

\* the days events fall on: 2019-12-30, 2020-01-02 and 2020-01-30
RpDays ==
    { days_from_civil(2019, 12, 30), days_from_civil(2020, 1, 2),
      days_from_civil(2020, 1, 30) }

\* 08:00 and 17:30
RpTimes == {8 * SecondsPerHour, 17 * SecondsPerHour + 30 * SecondsPerMinute}

RpEventSet ==
    {Event(k, d * SecondsPerDay + t) : k \in EventKind, d \in RpDays, t \in RpTimes}

RpInputs ==
    {evs \in UNION {[1..n -> RpEventSet] : n \in 0..MaxReportLen} : TimeOrdered(evs)}

InitReport ==
    /\ StoreIdle
    /\ WtIdle
    /\ IoIdle
    /\ ViewIdle
    /\ rpIn \in [kind : {"weekly", "monthly"}, date : RpMondays, events : RpInputs,
                 build : Builds]
    /\ rpPc = "header"
    /\ rpIdx = 0
    /\ events_per_day = <<>>
    /\ rpOut = NoReportOut

\* the header is written and report_days begins, or the week computation panics
WriteHeader(cw) ==
    /\ rpPc = "header"
    /\ IF rpIn.kind = "weekly" /\ cw.panicked
       THEN rpPc' = "panicked" /\ rpOut' = rpOut
       ELSE /\ rpPc' = "report_days"
            /\ rpOut' = [rpOut EXCEPT !.header =
                            IF rpIn.kind = "weekly" THEN weekly_header(rpIn.date, cw.week)
                            ELSE monthly_header(rpIn.date)]
    /\ UNCHANGED <<rpIn, rpIdx, events_per_day, storeVars, wtVars, ioVars, viewVars>>

\* weekly_report, view.rs 88-118; monthly_report, view.rs 75
Header == WriteHeader(calendar_week(rpIn.date, rpIn.build))

\* one iteration of the first loop of report_days (view.rs 130-135)
GroupEvent ==
    /\ rpPc = "report_days"
    /\ rpIdx < Len(rpIn.events)
    /\ events_per_day' = push_event(events_per_day, rpIn.events[rpIdx + 1])
    /\ rpIdx' = rpIdx + 1
    /\ UNCHANGED <<rpIn, rpPc, rpOut, storeVars, wtVars, ioVars, viewVars>>

WriteRow(key, wt) ==
    IF wt.panicked
    THEN rpPc' = "panicked" /\ rpOut' = rpOut
    ELSE /\ rpPc' = rpPc
         /\ rpOut' = [rpOut EXCEPT !.rows = Append(@, row(key, events_per_day[key], wt))]

RenderKey(key) == WriteRow(key, working_time(events_per_day[key]))

\* one iteration of the second loop of report_days (view.rs 137-154)
RenderRow ==
    /\ rpPc = "report_days"
    /\ rpIdx = Len(rpIn.events)
    /\ Len(rpOut.rows) < Cardinality(DOMAIN events_per_day)
    /\ RenderKey(nth_key(events_per_day, Len(rpOut.rows) + 1))
    /\ UNCHANGED <<rpIn, rpIdx, events_per_day, storeVars, wtVars, ioVars, viewVars>>

WriteTotal(wt) ==
    IF wt.panicked
    THEN rpPc' = "panicked" /\ rpOut' = rpOut
    ELSE /\ rpPc' = "done"
         /\ rpOut' = [rpOut EXCEPT !.total =
                         << Lit("Total working time: ") >> \o hours_minutes(wt)
                         \o << Lit(" hours") >>]

\* the total line of report_days (view.rs 156-163)
Total ==
    /\ rpPc = "report_days"
    /\ rpIdx = Len(rpIn.events)
    /\ Len(rpOut.rows) = Cardinality(DOMAIN events_per_day)
    /\ WriteTotal(working_time(rpIn.events))
    /\ UNCHANGED <<rpIn, rpIdx, events_per_day, storeVars, wtVars, ioVars, viewVars>>

NextReport ==
    \/ Header
    \/ GroupEvent
    \/ RenderRow
    \/ Total

SpecReport == InitReport /\ [][NextReport]_vars


(***************************************************************************)
(* Properties of the reports, checked under SpecReport                     *)
(***************************************************************************)
\* the Thursday of the week (Monday to Sunday) a date lies in
ThursdayOfWeek(date) == date - num_days_from_monday(date) + 3

DayOfYear(date) == date - days_from_civil(civil_from_days(date).year, 1, 1)

\* ISO 8601: a week belongs to the year its Thursday lies in, and week 1 is the
\* week of the year's first Thursday
IsoWeek(date) == DayOfYear(ThursdayOfWeek(date)) \div 7 + 1

\* C13: the header of weekly_report(monday, events) states the ISO 8601 week
\* number of the Monday, for every Monday, also one in January or one in late
\* December whose week is week 1 of the next year.
C13_HeaderStatesIsoWeek ==
    (rpIn.kind = "weekly" /\ rpPc # "header") =>
        /\ rpPc # "panicked"
        /\ rpOut.header = weekly_header(rpIn.date, IsoWeek(rpIn.date))


\* the calendar dates of an event list
DatesOf(evs) == {date_naive(evs[i].dt) : i \in 1..Len(evs)}

EventsOn(evs, date) == SelectSeq(evs, LAMBDA e : date_naive(e.dt) = date)

SameMonth(d1, d2) ==
    month_digits(civil_from_days(d1)) = month_digits(civil_from_days(d2))

\* the events are of the report's scope: the seven days from the Monday on, or
\* the month of the date
InScope(in) ==
    IF in.kind = "weekly" THEN DatesOf(in.events) \subseteq in.date..(in.date + 6)
    ELSE \A d \in DatesOf(in.events) : SameMonth(d, in.date)

\* the date of a row: the date of the first event it was computed from
RowDate(r) == date_naive(r.days_events[1].dt)

\* C14: in weekly and monthly reports the rows of the days are in ascending
\* order of calendar date, also when the scope spans a month or year boundary:
\* for the week from Dec 30 the rows of Dec 30 and 31 come before the January
\* rows.
C14_RowsAscendingByDate ==
    (rpPc = "done" /\ InScope(rpIn)) =>
        \A i, j \in 1..Len(rpOut.rows) :
            i < j => RowDate(rpOut.rows[i]) < RowDate(rpOut.rows[j])

\* C15: report_days groups by full calendar date: for any event list the events
\* of two different dates are never in the same row, also when the dates have
\* the same day-of-month number.
C15_RowsHoldOneDate ==
    \A i \in 1..Len(rpOut.rows) :
        Cardinality(DatesOf(rpOut.rows[i].days_events)) = 1

\* one day holds a lone clock-in and nothing else, and there are other days, each
\* holding well-formed pairs
LoneClockInDay(evs, lone) ==
    /\ lone \in DatesOf(evs)
    /\ DatesOf(evs) # {lone}
    /\ Len(EventsOn(evs, lone)) = 1
    /\ EventsOn(evs, lone)[1].kind = "ClockIn"
    /\ \A d \in DatesOf(evs) \ {lone} : WellFormedPairs(EventsOn(evs, d))

RECURSIVE PairSumOfDays(_, _)
PairSumOfDays(evs, dates) ==
    IF dates = {} THEN 0
    ELSE LET d == CHOOSE x \in dates : TRUE
         IN PairSum(EventsOn(evs, d)) + PairSumOfDays(evs, dates \ {d})

TotalLine(seconds) ==
    << Lit("Total working time: "), Digits(seconds \div 3600), Lit(":"),
       Digits((seconds \div 60) % 60), Lit(" hours") >>

\* C16: in a monthly report where one day holds only a lone clock-in and the
\* other days hold well-formed pairs, the row of the lone clock-in's day shows
\* the unknown-duration marker instead of a duration, and the grand total is
\* the sum of the completed pairs of the other days.
C16_LoneClockInRow ==
    \A lone \in DatesOf(rpIn.events) :
        ( /\ rpPc = "done"
          /\ rpIn.kind = "monthly"
          /\ InScope(rpIn)
          /\ LoneClockInDay(rpIn.events, lone) ) =>
            /\ \A i \in 1..Len(rpOut.rows) :
                    RowDate(rpOut.rows[i]) = lone =>
                        rpOut.rows[i].recorded_time = <<Lit("?")>>
            /\ rpOut.total
                 = TotalLine(PairSumOfDays(rpIn.events, DatesOf(rpIn.events) \ {lone}))


\* the whole minutes of the working times of the days, added up
RECURSIVE MinutesOfDays(_, _)
MinutesOfDays(evs, dates) ==
    IF dates = {} THEN 0
    ELSE LET d == CHOOSE x \in dates : TRUE
         IN AdjacentPairSum(EventsOn(evs, d)) \div 60 + MinutesOfDays(evs, dates \ {d})

\* the accumulated durations of the days, added up
RECURSIVE DurationOfDays(_, _)
DurationOfDays(evs, dates) ==
    IF dates = {} THEN 0
    ELSE LET d == CHOOSE x \in dates : TRUE
         IN AdjacentPairSum(EventsOn(evs, d)) + DurationOfDays(evs, dates \ {d})

\* the time from a day's trailing clock-in to the clock-out that starts the
\* next day with events, added up over the list
RECURSIVE OvernightPairs(_)
OvernightPairs(evs) ==
    IF Len(evs) < 2 THEN 0
    ELSE LET n == Len(evs)
         IN OvernightPairs(SubSeq(evs, 1, n - 1))
            + (IF /\ evs[n].kind = "ClockOut"
                  /\ evs[n - 1].kind = "ClockIn"
                  /\ date_naive(evs[n].dt) # date_naive(evs[n - 1].dt)
               THEN evs[n].dt - evs[n - 1].dt ELSE 0)

\* C23 as claimed: in a weekly or monthly report the grand total equals the
\* sum of the working times of the days of the scope, for every event list in
\* which each day's events are time-ordered, also with days that end in an
\* unmatched clock-in or start with an unmatched clock-out.
C23_TotalIsSumOfDays ==
    (rpPc = "done" /\ InScope(rpIn)) =>
        rpOut.total = TotalLine(60 * MinutesOfDays(rpIn.events, DatesOf(rpIn.events)))

\* C23 as amended: for a time-ordered event list of the report's week or month
\* the grand total is working_time over the whole list: the hours and whole
\* minutes of the sum of the days' accumulated durations plus the time from a
\* day's trailing unmatched clock-in to the clock-out that starts the next day
\* with events.
C23_TotalIsSumPlusOvernight ==
    (rpPc = "done" /\ InScope(rpIn)) =>
        rpOut.total = TotalLine(DurationOfDays(rpIn.events, DatesOf(rpIn.events))
                                + OvernightPairs(rpIn.events))

\* a report over a day that ends in a clock-in and a later day that starts with
\* a clock-out
C23_Witness ==
    /\ rpPc = "done"
    /\ InScope(rpIn)
    /\ Len(rpIn.events) = 3
    /\ OvernightPairs(rpIn.events) > 0
    /\ rpOut.total # TotalLine(0)

(***************************************************************************)
(* SpecIO: two invocations of the program run create_event on one day's    *)
(* partition side by side, write_to_file one file system call at a time;   *)
(* an invocation may crash before any of its steps.                        *)
(***************************************************************************)
IoProcs == {1, 2}

\* the day both invocations write to: 2019-12-31
IoDate == FirstDay

\* the events the invocations create: a clock-in at 00:30, a clock-out at 23:30
IoEvents ==
    { Event("ClockIn", get_date_time(IoDate, 30 * SecondsPerMinute, 0)),
      Event("ClockOut",
            get_date_time(IoDate, 23 * SecondsPerHour + 30 * SecondsPerMinute, 0)) }

\* the store before: empty, or the day's partition holding a clock-in at 12:00
IoDirs ==
    { <<>>,
      create_event(<<>>, Event("ClockIn", get_date_time(IoDate, 12 * SecondsPerHour, 0))).dir }

\* an invocation about to call create_event(&storage_dir, &event)
Invocation(event) ==
    [pc |-> "read", event |-> event, events |-> <<>>, content |-> <<>>, written |-> 0,
     at |-> "none"]

\* a temporary file that is shared by the invocations
temp_name_shared(p) == 0

\* NamedTempFile::new(): every invocation gets a temporary file of its own
temp_name(p) == p

\* the file systems after a write call that puts the next piece into the
\* partition file itself
write_in_place(dir, tmpdir, file_name, name, piece) ==
    [files |-> write_to_file(dir, file_name,
                             IF file_name \in DOMAIN dir THEN Append(dir[file_name], piece)
                             ELSE <<piece>>),
     tmp |-> tmpdir]

\* the file systems after one write call of tmp_file.write_all(content): the
\* next piece of the content is appended to the temporary file
write_piece(dir, tmpdir, file_name, name, piece) ==
    [files |-> dir, tmp |-> [tmpdir EXCEPT ![name] = Append(@, piece)]]

\* the file systems after fs::rename(tmp_file, file_path)
rename(dir, tmpdir, file_name, name) ==
    [files |-> write_to_file(dir, file_name, tmpdir[name]),
     tmp |-> [f \in (DOMAIN tmpdir) \ {name} |-> tmpdir[f]]]

InitIO ==
    /\ files \in IoDirs
    /\ tz = 0
    /\ last = NoCommand
    /\ created = EmptyBag
    /\ deleted = FALSE
    /\ creates = 0
    /\ WtIdle
    /\ ReportIdle
    /\ ViewIdle
    /\ procs \in [IoProcs -> {Invocation(e) : e \in IoEvents}]
    /\ tmp = <<>>
    /\ renames = <<>>

IoFrame == UNCHANGED <<tz, last, created, deleted, creates, wtVars, reportVars, viewVars>>

\* create_event up to the call of write_to_file (data.rs 70-85)
ReadWith(p, read) ==
    /\ procs[p].pc = "read"
    /\ procs' = [procs EXCEPT ![p] =
            IF ~read.ok THEN [@ EXCEPT !.pc = "failed"]
            ELSE [@ EXCEPT !.pc = "create_tmp",
                           !.events = sort_by_key(Append(read.events, procs[p].event)),
                           !.content = Join(all_to_str(sort_by_key(
                                                Append(read.events, procs[p].event))),
                                            Newline)]]
    /\ UNCHANGED <<files, tmp, renames>>
    /\ IoFrame

Read(p) == ReadWith(p, read_events(files, date_naive(procs[p].event.dt)))

\* NamedTempFile::new() (data.rs 182)
CreateTmp(p) ==
    /\ procs[p].pc = "create_tmp"
    /\ tmp' = write_to_file(tmp, temp_name(p), <<>>)
    /\ procs' = [procs EXCEPT ![p].pc = IF procs[p].content = <<>> THEN "rename" ELSE "write"]
    /\ UNCHANGED <<files, renames>>
    /\ IoFrame

Written(p, fs) ==
    /\ files' = fs.files
    /\ tmp' = fs.tmp
    /\ procs' = [procs EXCEPT ![p].written = @ + 1,
                              ![p].pc = IF procs[p].written + 1 = Len(procs[p].content)
                                        THEN "rename" ELSE "write"]

\* one write call of tmp_file.write_all (data.rs 183)
Write(p) ==
    /\ procs[p].pc = "write"
    /\ temp_name(p) \in DOMAIN tmp
    /\ Written(p, write_piece(files, tmp, get_file_name(date_naive(procs[p].event.dt)),
                              temp_name(p), procs[p].content[procs[p].written + 1]))
    /\ UNCHANGED renames
    /\ IoFrame

Renamed(p, fs) ==
    /\ files' = fs.files
    /\ tmp' = fs.tmp
    /\ renames' = Append(renames, p)
    /\ procs' = [procs EXCEPT ![p].pc = "sync"]

\* fs::rename(tmp_file, file_path) (data.rs 185)
Rename(p) ==
    /\ procs[p].pc = "rename"
    /\ temp_name(p) \in DOMAIN tmp
    /\ Renamed(p, rename(files, tmp, get_file_name(date_naive(procs[p].event.dt)),
                         temp_name(p)))
    /\ IoFrame

\* fs::rename returns an error (the temporary directory is on another file
\* system, say): write_to_file returns it, and dropping the NamedTempFile removes
\* the temporary file
RenameFails(p) ==
    /\ procs[p].pc = "rename"
    /\ tmp' = [f \in (DOMAIN tmp) \ {temp_name(p)} |-> tmp[f]]
    /\ procs' = [procs EXCEPT ![p].pc = "failed"]
    /\ UNCHANGED <<files, renames>>
    /\ IoFrame

\* OpenOptions::new().write(true).open(file_path)?.sync_all() (data.rs 190)
Sync(p) ==
    /\ procs[p].pc = "sync"
    /\ procs' = [procs EXCEPT ![p].pc = "done"]
    /\ UNCHANGED <<files, tmp, renames>>
    /\ IoFrame

\* the invocation stops where it is; what it wrote stays as it is
Crash(p) ==
    /\ procs[p].pc \in {"read", "create_tmp", "write", "rename", "sync"}
    /\ procs' = [procs EXCEPT ![p].pc = "crashed", ![p].at = procs[p].pc]
    /\ UNCHANGED <<files, tmp, renames>>
    /\ IoFrame

NextIO ==
    \E p \in IoProcs :
        \/ Read(p)
        \/ CreateTmp(p)
        \/ Write(p)
        \/ Rename(p)
        \/ RenameFails(p)
        \/ Sync(p)
        \/ Crash(p)

SpecIO == InitIO /\ [][NextIO]_vars


(***************************************************************************)
(* Properties of the writes, checked under SpecIO                          *)
(***************************************************************************)
IoFile == get_file_name(IoDate)

\* the complete text of an event list, as create_event writes it
CompleteContent(events) == Join(all_to_str(events), Newline)

\* C11: while a write to a partition is in progress (create the temporary file,
\* write the content, rename onto the partition file, sync) no step, and no crash
\* between two steps, changes the partition file except the rename, which
\* replaces it by the complete new content: the partition file holds the
\* complete previous content or the complete new content, never a partial one.
C11_CrashSafeWrite ==
    [][\A p \in DOMAIN procs :
          procs'[p] # procs[p] =>
              \/ files' = files
              \/ /\ procs[p].pc = "rename"
                 /\ procs[p].events # <<>>
                 /\ files' = write_to_file(files, IoFile, CompleteContent(procs[p].events))]_vars

\* an invocation crashed with a part of its content written, another after its
\* rename and before the sync
C11_Witness ==
    /\ procs # <<>>
    /\ \E p, q \in DOMAIN procs :
        /\ procs[p].pc = "crashed" /\ procs[p].at = "write"
        /\ procs[p].written > 0
        /\ procs[q].pc = "crashed" /\ procs[q].at = "sync"
        /\ files[IoFile] = CompleteContent(procs[q].events)
        /\ files[IoFile] # CompleteContent(procs[p].events)

\* C12: when two invocations run create_event on one day's partition side by
\* side, after every interleaving of their steps the partition is exactly the
\* list computed by the invocation that renamed last: it is read back as that
\* list, sorted and holding that invocation's event.  The other invocation's
\* event may be lost; the contents are never merged or mixed.
C12_LastRenameWins ==
    renames # <<>> =>
        /\ read_events(files, IoDate) = Ok(procs[renames[Len(renames)]].events)
        /\ Ascending(procs[renames[Len(renames)]].events)
        /\ procs[renames[Len(renames)]].event
              \in Elements(procs[renames[Len(renames)]].events)

\* both invocations have returned, and the event of the one that renamed first
\* is lost
C12_Witness ==
    /\ Len(renames) = 2
    /\ \A p \in DOMAIN procs : procs[p].pc = "done"
    /\ procs[renames[1]].event \notin Elements(read_events(files, IoDate).events)
    /\ procs[renames[2]].event \in Elements(read_events(files, IoDate).events)


(***************************************************************************)
(* The read-only commands (main.rs: View, WeeklyReport)                    *)
(***************************************************************************)
\* a read_events that creates the partition file it does not find
read_events_creates(dir, date) ==
    IF get_file_name(date) \in DOMAIN dir THEN dir
    ELSE write_to_file(dir, get_file_name(date), <<>>)

\* the storage directory after read_events(dir, date): the file is looked for
\* and opened for reading, nothing is created or written (data.rs 99-105)
read_events_dir(dir, date) == dir

\* the Monday of the week of the reference day (main.rs 62-66)
monday_of(reference_day) == reference_day - num_days_from_monday(reference_day)

\* std::iter::successors(Some(monday), ..): the Monday and the days after it
\* that are not after the reference day (main.rs 67-74)
days_until(monday, reference_day) ==
    [i \in 1..(reference_day - monday + 1) |-> monday + i - 1]

\* events.extend(read_events(..).unwrap()): a failed read ends the command
extend(read, rest) ==
    IF ~read.ok \/ ~rest.ok THEN Err ELSE Ok(read.events \o rest.events)

\* days.for_each(|date| events.extend(read_events(&storage_dir, &date).unwrap()))
RECURSIVE load_days(_, _)
load_days(dir, days) ==
    IF days = <<>> THEN Ok(<<>>)
    ELSE extend(read_events(dir, Head(days)), load_days(dir, Tail(days)))

(***************************************************************************)
(* SpecView: one invocation of the program with a read-only command, on    *)
(* storage directories whose partition files hold any lines, written by    *)
(* the program or by hand.                                                 *)
(***************************************************************************)
MaxLines == 3        \* most lines in a partition file

\* the days of the partition files: Tuesday 2019-12-31 and Friday 2020-01-03
ViewDay == FirstDay

LaterDay == FirstDay + 3

ViewClockIn == Event("ClockIn", get_date_time(ViewDay, 8 * SecondsPerHour, 0))

ViewClockOut == Event("ClockOut", get_date_time(ViewDay, 17 * SecondsPerHour, 0))

LaterClockIn == Event("ClockIn", get_date_time(LaterDay, 8 * SecondsPerHour, 0))

GoodLine(event) == [text |-> event_to_str(event), class |-> "good", event |-> <<event>>]

BlankLine(text) == [text |-> text, class |-> "blank", event |-> <<>>]

BadLine(text) == [text |-> text, class |-> "malformed", event |-> <<>>]

\* lines as the program writes them, a line with spaces around its columns,
\* blank lines, and lines with one column, three columns, an unknown kind, a
\* timestamp that is no timestamp, and a timestamp in a thirteenth month
ViewLines ==
    { GoodLine(ViewClockIn),
      GoodLine(ViewClockOut),
      [text |-> <<Space, Lit("clock-out"), Space, Comma, Space>>
                \o to_rfc3339(ViewClockOut.dt) \o <<Space>>,
       class |-> "good", event |-> <<ViewClockOut>>],
      BlankLine(<<>>),
      BlankLine(<<Space, Space>>),
      BadLine(<<Lit("clock-in")>>),
      BadLine(event_to_str(ViewClockIn) \o <<Comma, Lit("lunch")>>),
      BadLine(<<Lit("clock-pause"), Comma>> \o to_rfc3339(ViewClockIn.dt)),
      BadLine(<<Lit("clock-in"), Comma, Lit("yesterday")>>),
      BadLine(<<Lit("clock-in"), Comma, Digits(20191331), Lit("T"), Digits(80000),
                Lit("+00:00")>>) }

ViewLineSeqs == UNION {[1..n -> ViewLines] : n \in 0..MaxLines}

TextOf(ls) == Join([i \in 1..Len(ls) |-> ls[i].text], Newline)

\* no partition file for ViewDay, or one holding up to MaxLines lines
ViewDayDirs ==
    {<<>>} \cup {write_to_file(<<>>, get_file_name(ViewDay), TextOf(ls)) : ls \in ViewLineSeqs}

\* with or without a partition for the later day, as create_event writes it
ViewDirs == ViewDayDirs \cup {create_event(dir, LaterClockIn).dir : dir \in ViewDayDirs}

\* the days the commands are given: the week from Monday 2019-12-30 on
ViewDates == monday_of(ViewDay)..(monday_of(ViewDay) + 6)

InitView ==
    /\ files \in ViewDirs
    /\ tz = 0
    /\ last = NoCommand
    /\ created = EmptyBag
    /\ deleted = FALSE
    /\ creates = 0
    /\ WtIdle
    /\ ReportIdle
    /\ IoIdle
    /\ view = NoView

ViewFrame == UNCHANGED <<tz, last, created, deleted, creates, wtVars, reportVars, ioVars>>

\* Commands::View { date }: read_events(&storage_dir, &date), then the daily
\* report of what was read (main.rs 54-58)
View ==
    \E date \in ViewDates :
        /\ view = NoView
        /\ view' = [op |-> "view", date |-> date, days |-> <<date>>, before |-> files,
                    result |-> read_events(files, date)]
        /\ files' = read_events_dir(files, date)
        /\ ViewFrame

Loaded(reference_day, days) ==
    /\ view = NoView
    /\ view' = [op |-> "weekly", date |-> reference_day, days |-> days, before |-> files,
                result |-> load_days(files, days)]
    /\ files' = files
    /\ ViewFrame

\* Commands::WeeklyReport { date }: the events that are loaded and handed to
\* weekly_report with the Monday (main.rs 59-82)
WeeklyReport ==
    \E reference_day \in ViewDates :
        Loaded(reference_day, days_until(monday_of(reference_day), reference_day))

NextView ==
    \/ View
    \/ WeeklyReport

SpecView == InitView /\ [][NextView]_vars

(***************************************************************************)
(* Properties of the read-only commands, checked under SpecView            *)
(***************************************************************************)
\* C17: read_events(day) for a day with no partition file returns the empty
\* list and creates no partition: the partition files and their contents are
\* the same after the call as before it.
C17_ReadCreatesNothing ==
    (view.op = "view" /\ get_file_name(view.date) \notin DOMAIN view.before) =>
        /\ view.result = Ok(<<>>)
        /\ files = view.before

\* a day without a partition was read in a store that holds another partition
C17_Witness ==
    /\ view.op = "view"
    /\ get_file_name(view.date) \notin DOMAIN view.before
    /\ view.before # <<>>
    /\ view.result = Ok(<<>>)

\* the lines of a text, as the line records they are the texts of
KnownLine(text) == CHOOSE l \in ViewLines \cup {GoodLine(LaterClockIn)} : l.text = text

LinesIn(content) ==
    [i \in 1..Len(Split(content, Newline)) |-> KnownLine(Split(content, Newline)[i])]

HasMalformed(ls) == \E i \in 1..Len(ls) : ls[i].class = "malformed"

RECURSIVE EventsOfLines(_)
EventsOfLines(ls) ==
    IF ls = <<>> THEN <<>> ELSE Head(ls).event \o EventsOfLines(Tail(ls))

ExpectedRead(ls) == IF HasMalformed(ls) THEN Err ELSE Ok(EventsOfLines(ls))

\* C18: if a non-blank line of a partition is malformed (not 2 columns, an
\* unknown kind, a timestamp that does not parse) read_events returns an error
\* for the whole partition and none of its well-formed events; blank lines alone
\* cause no error: the events of the other lines are returned in their order.
C18_MalformedLineFailsRead ==
    (view.op = "view" /\ get_file_name(view.date) \in DOMAIN view.before) =>
        view.result = ExpectedRead(LinesIn(view.before[get_file_name(view.date)]))

\* a partition with a well-formed line, a blank line and a malformed line was read
C18_Witness ==
    /\ view.op = "view"
    /\ ~view.result.ok
    /\ \E ls \in ViewLineSeqs :
        /\ view.before = write_to_file(<<>>, get_file_name(view.date), TextOf(ls))
        /\ {ls[i].class : i \in 1..Len(ls)} = {"good", "blank", "malformed"}
        /\ ls[1].class = "good"

\* the seven days, Monday to Sunday, of the week of a date
WeekOf(date) == [i \in 1..7 |-> monday_of(date) + i - 1]

\* C20: the weekly-report command for a reference date d loads and reports the
\* events of all seven days, Monday to Sunday, of the week of d, whatever
\* weekday d is (in a store whose partitions of that week can all be read).
C20_WeeklyLoadsSevenDays ==
    (view.op = "weekly" /\ load_days(view.before, WeekOf(view.date)).ok) =>
        view.result = load_days(view.before, WeekOf(view.date))

====
